---- MODULE Spec2Model ----
(***************************************************************************)
(* A model of review_agent.py: one run of the AI pull-request reviewer.    *)
(* The script is a straight line of calls to the source-control API and to *)
(* the LLM endpoint; every call can fail, and the model draws each call's  *)
(* outcome from the environment.  pc is the position in the script.        *)
(***************************************************************************)
EXTENDS Integers, Sequences, FiniteSets, TLC

VARIABLES
    pc,             \* position in the script; "done" and "fatal" are final
    failedAt,       \* the step whose uncaught exception ended the run
    reported,       \* pull.get_files(): the files the API reports
    fetches,        \* outcome of each repo.get_contents in step 1, in order
    changed_files,  \* the list built by step 1
    readme,         \* outcome of repo.get_readme()
    docs_dir,       \* outcome of repo.get_contents("docs")
    docs_fetches,   \* outcome of each per-file docs fetch, in order
    docs_idx,       \* number of docs_dir items the loop has consumed
    docs_text,      \* the documentation text, as a sequence of pieces
    prompt,         \* the prompt sent to the LLM
    llmCalls,       \* calls made to openai.ChatCompletion.create
    raw_output,     \* the reply text, as a sequence of tokens
    parsed,         \* json.loads has returned
    result,         \* the parsed JSON object
    score,          \* int(result.get("score", 0))
    verdict,        \* result.get("verdict", "REJECTED")
    comment_body,   \* the formatted review comment
    comments,       \* comments on the pull request posted by this run
    branch,         \* "none", "merge" or "reject": the arm of the if taken
    mergeCalls,     \* calls made to pull.merge
    merged,         \* the pull request has been merged
    labelLookups,   \* calls made to repo.get_label
    labelFound,     \* repo.get_label returned a label
    createCalls,    \* calls made to repo.create_label
    labelsCreated,  \* labels created on the repository
    attachCalls,    \* calls made to pull.add_to_labels
    labelsAttached  \* labels attached to the pull request

vars == <<pc, failedAt, reported, fetches, changed_files, readme, docs_dir,
          docs_fetches, docs_idx, docs_text, prompt, llmCalls, raw_output,
          parsed, result, score, verdict, comment_body, comments, branch,
          mergeCalls, merged, labelLookups, labelFound, createCalls,
          labelsCreated, attachCalls, labelsAttached>>

collectVars == <<reported, fetches, changed_files>>
docsVars    == <<readme, docs_dir, docs_fetches, docs_idx, docs_text>>
reviewVars  == <<llmCalls, raw_output, parsed, result, score, verdict>>
prVars      == <<comment_body, comments, branch, mergeCalls, merged,
                 labelLookups, labelFound, createCalls, labelsCreated,
                 attachCalls, labelsAttached>>

----------------------------------------------------------------------------
(* Bounds of the model. *)

MaxFiles == 2   \* changed files per pull request, collection alone
MaxDocs  == 2   \* entries of docs/, collection alone
RunFiles == 1   \* changed files per pull request, whole run
RunDocs  == 1   \* entries of docs/, whole run
MaxReply == 3   \* tokens of an LLM reply

SeqsUpTo(S, n) == UNION {[1..k -> S] : k \in 0..n}

----------------------------------------------------------------------------
(* Text.  A string the script inspects is a sequence of one-character      *)
(* strings; a byte string is a sequence of byte tokens, "BAD" standing for *)
(* a byte that is not valid UTF-8.                                         *)

Utf8Ignore(bytes) == SelectSeq(bytes, LAMBDA b : b # "BAD")

Utf8StrictOk(bytes) == \A i \in DOMAIN bytes : bytes[i] # "BAD"

LowerToUpper ==
    "a" :> "A" @@ "c" :> "C" @@ "d" :> "D" @@ "e" :> "E" @@ "j" :> "J" @@
    "p" :> "P" @@ "r" :> "R" @@ "t" :> "T"

Upper(s) ==
    [i \in DOMAIN s |-> IF s[i] \in DOMAIN LowerToUpper
                        THEN LowerToUpper[s[i]] ELSE s[i]]

ACCEPTED == <<"A", "C", "C", "E", "P", "T", "E", "D">>
REJECTED == <<"R", "E", "J", "E", "C", "T", "E", "D">>

----------------------------------------------------------------------------
(* JSON values, all of one shape: t is the type, n the number (a float in  *)
(* tenths), s the characters of a string or the items of a list.           *)

JMissing  == [t |-> "missing", n |-> 0, s |-> <<>>]
JNull     == [t |-> "null",    n |-> 0, s |-> <<>>]
JInt(n)   == [t |-> "int",     n |-> n, s |-> <<>>]
JFloat(n) == [t |-> "float",   n |-> n, s |-> <<>>]
JStr(s)   == [t |-> "str",     n |-> 0, s |-> s]
JList(s)  == [t |-> "list",    n |-> 0, s |-> s]

EmptyObj ==
    [score |-> JMissing, verdict |-> JMissing,
     issues_found |-> JMissing, summary |-> JMissing]

----------------------------------------------------------------------------
(* The environment: what the source-control API may report.                *)

FileUniverse ==
    {[filename |-> "a.py", status |-> "added"],
     [filename |-> "b.md", status |-> "modified"],
     [filename |-> "c.bin", status |-> "removed"]}

DocsUniverse ==
    {[path |-> "docs/a.md", type |-> "file"],
     [path |-> "docs/b.md", type |-> "file"],
     [path |-> "docs/img",  type |-> "dir"]}

FileBytes == {<<"x">>, <<"x", "BAD">>}

\* Everything the API may report, for the collection steps alone.
FullWorld ==
    [files |-> FileUniverse, nfiles |-> MaxFiles,
     docs  |-> DocsUniverse, ndocs  |-> MaxDocs, bytes |-> FileBytes]

\* A smaller repository, for the whole run.
RunWorld ==
    [files |-> {f \in FileUniverse : f.filename # "c.bin"}, nfiles |-> RunFiles,
     docs  |-> {d \in DocsUniverse : d.path # "docs/b.md"}, ndocs |-> RunDocs,
     bytes |-> {<<"x">>}]

\* Lists of distinct elements: the API reports a path once.
DistinctSeqs(S, n) ==
    {q \in SeqsUpTo(S, n) : \A i, j \in DOMAIN q : i # j => q[i] # q[j]}

\* A content fetch raises, or returns bytes.
FetchOutcomes(w) ==
    {[ok |-> FALSE, bytes |-> <<>>]} \cup {[ok |-> TRUE, bytes |-> b] : b \in w.bytes}

NoFetch == [ok |-> FALSE, bytes |-> <<>>]

----------------------------------------------------------------------------
(* Start-up: environment variables, the event file, the repository and the *)
(* pull request objects.                                                   *)

StartupOutcomes ==
    {"ok", "no_openai_key", "no_bot_pat", "no_event_path", "bad_event_file",
     "not_pull_request", "api_error"}

Init ==
    /\ pc = "startup"
    /\ failedAt = "none"
    /\ reported = <<>>
    /\ fetches = <<>>
    /\ changed_files = <<>>
    /\ readme = NoFetch
    /\ docs_dir = [kind |-> "unread", items |-> <<>>]
    /\ docs_fetches = <<>>
    /\ docs_idx = 0
    /\ docs_text = <<>>
    /\ prompt = <<>>
    /\ llmCalls = 0
    /\ raw_output = <<>>
    /\ parsed = FALSE
    /\ result = EmptyObj
    /\ score = 0
    /\ verdict = JMissing
    /\ comment_body = [score |-> 0, verdict |-> JMissing,
                       summary |-> <<>>, issues_md |-> <<>>]
    /\ comments = <<>>
    /\ branch = "none"
    /\ mergeCalls = 0
    /\ merged = FALSE
    /\ labelLookups = 0
    /\ labelFound = FALSE
    /\ createCalls = 0
    /\ labelsCreated = 0
    /\ attachCalls = 0
    /\ labelsAttached = 0

\* An uncaught exception at `step` ends the run.
Raise(step) ==
    /\ pc' = "fatal"
    /\ failedAt' = step

Startup ==
    /\ pc = "startup"
    /\ \E cfg \in StartupOutcomes :
         IF cfg = "ok"
         THEN pc' = "get_files" /\ UNCHANGED failedAt
         ELSE Raise("startup")
    /\ UNCHANGED <<collectVars, docsVars, prompt, reviewVars, prVars>>

----------------------------------------------------------------------------
(* Step 1 - collect changed files.                                         *)

\* The record appended for `file` given the outcome of its content fetch.
ChangedFile(file, out) ==
    [filename |-> file.filename,
     status   |-> file.status,
     content  |-> IF out.ok THEN Utf8Ignore(out.bytes)
                  ELSE <<"Could not read file: ", file.filename>>]

\* pull.get_files(): the listing raises, or reports the changed files.
GetFiles(w) ==
    /\ pc = "get_files"
    /\ \/ /\ Raise("get_files")
          /\ UNCHANGED reported
       \/ \E fs \in DistinctSeqs(w.files, w.nfiles) :
            /\ reported' = fs
            /\ pc' = IF fs = <<>> THEN "readme" ELSE "collect"
            /\ UNCHANGED failedAt
    /\ UNCHANGED <<fetches, changed_files, docsVars, prompt, reviewVars, prVars>>

\* Variant of CollectFile: a failed fetch skips the file instead of recording
\* the placeholder.
CollectFileSkip(w) ==
    /\ pc = "collect"
    /\ Len(fetches) < Len(reported)
    /\ LET file == reported[Len(fetches) + 1] IN
       \E out \in FetchOutcomes(w) :
         /\ fetches' = Append(fetches, out)
         /\ changed_files' = IF out.ok
                             THEN Append(changed_files, ChangedFile(file, out))
                             ELSE changed_files
    /\ pc' = IF Len(fetches') = Len(reported) THEN "readme" ELSE "collect"
    /\ UNCHANGED <<failedAt, reported, docsVars, prompt, reviewVars, prVars>>

\* One iteration of the loop over the reported files.
CollectFile(w) ==
    /\ pc = "collect"
    /\ Len(changed_files) < Len(reported)
    /\ LET file == reported[Len(changed_files) + 1] IN
       \E out \in FetchOutcomes(w) :
         /\ fetches' = Append(fetches, out)
         /\ changed_files' = Append(changed_files, ChangedFile(file, out))
    /\ pc' = IF Len(changed_files') = Len(reported) THEN "readme" ELSE "collect"
    /\ UNCHANGED <<failedAt, reported, docsVars, prompt, reviewVars, prVars>>

----------------------------------------------------------------------------
(* Step 2 - read documentation.                                            *)

ReadmeHeading == "# README.md"
NoReadme      == "(No README found)"
NoDocs        == "(No docs/ folder)"

DocHeading(item) == <<"# ", item.path>>

\* repo.get_readme() and the strict decode of its content.
ReadReadme(w) ==
    /\ pc = "readme"
    /\ \E out \in FetchOutcomes(w) :
         /\ readme' = out
         /\ docs_text' = IF out.ok /\ Utf8StrictOk(out.bytes)
                         THEN docs_text \o <<ReadmeHeading>> \o out.bytes
                         ELSE docs_text \o <<NoReadme>>
    /\ pc' = "list_docs"
    /\ UNCHANGED <<failedAt, collectVars, docs_dir, docs_fetches, docs_idx,
                   prompt, reviewVars, prVars>>

\* repo.get_contents("docs"): raises, returns one file, or returns a listing.
ListDocs(w) ==
    /\ pc = "list_docs"
    /\ \/ /\ docs_dir' = [kind |-> "error", items |-> <<>>]
          /\ docs_text' = docs_text \o <<NoDocs>>
          /\ pc' = "prompt"
       \/ /\ docs_dir' = [kind |-> "file", items |-> <<>>]
          /\ docs_text' = docs_text
          /\ pc' = "prompt"
       \/ \E ds \in DistinctSeqs(w.docs, w.ndocs) :
            /\ docs_dir' = [kind |-> "list", items |-> ds]
            /\ docs_text' = docs_text
            /\ pc' = IF ds = <<>> THEN "prompt" ELSE "docs_loop"
    /\ UNCHANGED <<failedAt, collectVars, readme, docs_fetches, docs_idx,
                   prompt, reviewVars, prVars>>

\* One iteration of the loop over the listing; a fetch that raises leaves the
\* loop through the except clause around the whole docs block.
ReadDoc(w) ==
    /\ pc = "docs_loop"
    /\ docs_idx < Len(docs_dir.items)
    /\ LET item == docs_dir.items[docs_idx + 1] IN
       IF item.type # "file"
       THEN /\ docs_idx' = docs_idx + 1
            /\ pc' = IF docs_idx' = Len(docs_dir.items) THEN "prompt" ELSE "docs_loop"
            /\ UNCHANGED <<docs_text, docs_fetches>>
       ELSE \E out \in FetchOutcomes(w) :
            /\ docs_fetches' = Append(docs_fetches, out)
            /\ docs_idx' = docs_idx + 1
            /\ IF out.ok /\ Utf8StrictOk(out.bytes)
               THEN /\ docs_text' = docs_text \o DocHeading(item) \o out.bytes
                    /\ pc' = IF docs_idx' = Len(docs_dir.items)
                             THEN "prompt" ELSE "docs_loop"
               ELSE /\ docs_text' = docs_text \o DocHeading(item) \o <<NoDocs>>
                    /\ pc' = "prompt"
    /\ UNCHANGED <<failedAt, collectVars, readme, docs_dir, prompt,
                   reviewVars, prVars>>

----------------------------------------------------------------------------
(* Step 3 - build the prompt.                                              *)

Preamble == "You are an expert senior code reviewer. ... DOCUMENTATION:"

RECURSIVE FileBlocks(_)
FileBlocks(fs) ==
    IF fs = <<>> THEN <<>>
    ELSE <<"--- FILE: ", Head(fs).filename, Head(fs).status>>
         \o Head(fs).content \o FileBlocks(Tail(fs))

BuildPrompt ==
    /\ pc = "prompt"
    /\ prompt' = <<Preamble>> \o docs_text \o <<"CHANGED FILES:">>
                 \o FileBlocks(changed_files)
    /\ pc' = "call_llm"
    /\ UNCHANGED <<failedAt, collectVars, docsVars, reviewVars, prVars>>

----------------------------------------------------------------------------
NextCollect ==
    \/ Startup
    \/ GetFiles(FullWorld)
    \/ CollectFile(FullWorld)
    \/ ReadReadme(FullWorld)
    \/ ListDocs(FullWorld)
    \/ ReadDoc(FullWorld)
    \/ BuildPrompt

\* Start-up and steps 1 to 3, against everything the API may report.
SpecCollect == Init /\ [][NextCollect]_vars

----------------------------------------------------------------------------
(* Step 4 - call the LLM and extract the JSON object.                      *)
(* A reply is a sequence of tokens: "txt" is text without braces, "{" and  *)
(* "}" are the braces, "kv" is the text of the members of a JSON object.   *)

ReplyTokens == {"txt", "{", "}", "kv"}

Replies == SeqsUpTo(ReplyTokens, MaxReply)

Positions(s, tok) == {i \in DOMAIN s : s[i] = tok}

Min(S) == CHOOSE x \in S : \A y \in S : x <= y
Max(S) == CHOOSE x \in S : \A y \in S : x >= y

\* re.search(r"\{.*\}", raw_output, re.S) finds a match.
HasMatch(s) ==
    /\ Positions(s, "{") # {}
    /\ \E j \in Positions(s, "}") : j > Min(Positions(s, "{"))

\* match.group(0): from the first "{" to the last "}", the star being greedy.
MatchGroup(s) == SubSeq(s, Min(Positions(s, "{")), Max(Positions(s, "}")))

\* The values a reply's members give the four keys the script reads.
ScoreValues ==
    {JMissing, JNull, JInt(79), JInt(80), JFloat(799), JFloat(805),
     JStr(<<"8", "0">>), JStr(<<"8", "0", ".", "5">>)}

VerdictValues ==
    {JMissing, JNull, JStr(ACCEPTED), JStr(REJECTED),
     JStr(<<"A", "c", "c", "e", "p", "t", "e", "d">>),
     JStr(<<"A", "C", "C", "E", "P", "T">>)}

IssuesValues == {JMissing, JNull, JList(<<"issue1">>)}

SummaryValues == {JMissing, JStr(<<"o", "k">>)}

Objects ==
    [score : ScoreValues, verdict : VerdictValues,
     issues_found : IssuesValues, summary : SummaryValues]

\* json.loads(text): the objects the text may denote; none when it raises.
JsonLoads(text) ==
    IF text = <<"{", "}">> THEN {EmptyObj}
    ELSE IF text = <<"{", "kv", "}">> THEN Objects
    ELSE {}

\* openai.ChatCompletion.create and the read of the reply's content.
CallLLM ==
    /\ pc = "call_llm"
    /\ llmCalls' = llmCalls + 1
    /\ \/ /\ Raise("call_llm")
          /\ UNCHANGED raw_output
       \/ \E reply \in Replies :
            /\ raw_output' = reply
            /\ pc' = "extract_json"
            /\ UNCHANGED failedAt
    /\ UNCHANGED <<collectVars, docsVars, prompt, parsed, result, score,
                   verdict, prVars>>

\* Variant of ExtractJSON: a reply without a usable JSON object is read as the
\* empty object instead of raising.
ExtractJSONLenient ==
    /\ pc = "extract_json"
    /\ IF ~HasMatch(raw_output) \/ JsonLoads(MatchGroup(raw_output)) = {}
       THEN result' = EmptyObj
       ELSE result' \in JsonLoads(MatchGroup(raw_output))
    /\ parsed' = TRUE
    /\ pc' = "read_result"
    /\ UNCHANGED <<failedAt, collectVars, docsVars, prompt, llmCalls, raw_output,
                   score, verdict, prVars>>

\* The regular-expression search and json.loads.
ExtractJSON ==
    /\ pc = "extract_json"
    /\ IF ~HasMatch(raw_output)
       THEN Raise("extract_json") /\ UNCHANGED <<parsed, result>>
       ELSE IF JsonLoads(MatchGroup(raw_output)) = {}
       THEN Raise("json_loads") /\ UNCHANGED <<parsed, result>>
       ELSE \E obj \in JsonLoads(MatchGroup(raw_output)) :
              /\ result' = obj
              /\ parsed' = TRUE
              /\ pc' = "read_result"
              /\ UNCHANGED failedAt
    /\ UNCHANGED <<collectVars, docsVars, prompt, llmCalls, raw_output,
                   score, verdict, prVars>>

----------------------------------------------------------------------------
(* score = int(result.get("score", 0)); verdict = result.get("verdict",    *)
(* "REJECTED").                                                            *)

DigitVal ==
    "0" :> 0 @@ "1" :> 1 @@ "2" :> 2 @@ "3" :> 3 @@ "4" :> 4 @@
    "5" :> 5 @@ "6" :> 6 @@ "7" :> 7 @@ "8" :> 8 @@ "9" :> 9

IsDigits(s) == s # <<>> /\ \A i \in DOMAIN s : s[i] \in DOMAIN DigitVal

RECURSIVE DigitsValue(_)
DigitsValue(s) ==
    IF s = <<>> THEN 0
    ELSE 10 * DigitsValue(SubSeq(s, 1, Len(s) - 1)) + DigitVal[s[Len(s)]]

\* result.get(key, default)
Get(obj_value, default) == IF obj_value.t = "missing" THEN default ELSE obj_value

\* int(v) returns
IntOk(v) ==
    \/ v.t \in {"int", "float"}
    \/ v.t = "str" /\ IsDigits(v.s)

\* int(v): a float is truncated towards zero, a string is read as decimal digits.
IntOf(v) ==
    CASE v.t = "int"   -> v.n
      [] v.t = "float" -> IF v.n >= 0 THEN v.n \div 10 ELSE -((-v.n) \div 10)
      [] v.t = "str"   -> DigitsValue(v.s)

\* Variant of DefaultVerdict: a missing verdict counts as accepted.
DefaultVerdictAccepted == JStr(ACCEPTED)

DefaultScore   == JInt(0)
DefaultVerdict == JStr(REJECTED)

ReadResult ==
    /\ pc = "read_result"
    /\ IF ~IntOk(Get(result.score, DefaultScore))
       THEN Raise("int_score") /\ UNCHANGED <<score, verdict>>
       ELSE /\ score' = IntOf(Get(result.score, DefaultScore))
            /\ verdict' = Get(result.verdict, DefaultVerdict)
            /\ pc' = "format_comment"
            /\ UNCHANGED failedAt
    /\ UNCHANGED <<collectVars, docsVars, prompt, llmCalls, raw_output,
                   parsed, result, prVars>>

----------------------------------------------------------------------------
(* Step 5 - post the review comment.                                       *)

\* result["issues_found"] is read and iterated, then result["summary"] is read.
FormatComment ==
    /\ pc = "format_comment"
    /\ IF result.issues_found.t # "list"
       THEN Raise("issues_found") /\ UNCHANGED comment_body
       ELSE IF result.summary.t = "missing"
       THEN Raise("summary") /\ UNCHANGED comment_body
       ELSE /\ comment_body' = [score |-> score, verdict |-> verdict,
                                summary |-> result.summary.s,
                                issues_md |-> result.issues_found.s]
            /\ pc' = "post_comment"
            /\ UNCHANGED failedAt
    /\ UNCHANGED <<collectVars, docsVars, prompt, reviewVars, comments, branch,
                   mergeCalls, merged, labelLookups, labelFound, createCalls,
                   labelsCreated, attachCalls, labelsAttached>>

\* pull.create_issue_comment(comment_body)
PostComment ==
    /\ pc = "post_comment"
    /\ \/ /\ comments' = Append(comments, "review")
          /\ pc' = "decide"
          /\ UNCHANGED failedAt
       \/ /\ Raise("post_comment")
          /\ UNCHANGED comments
    /\ UNCHANGED <<collectVars, docsVars, prompt, reviewVars, comment_body,
                   branch, mergeCalls, merged, labelLookups, labelFound,
                   createCalls, labelsCreated, attachCalls, labelsAttached>>

----------------------------------------------------------------------------
(* Step 6 - auto-merge or reject.                                          *)

MergeThreshold == 80

\* Variant of ShouldMerge: the threshold itself is excluded.
ShouldMergeStrict(sc, v) == sc > MergeThreshold /\ Upper(v.s) = ACCEPTED

\* score >= 80 and verdict.upper() == "ACCEPTED"
ShouldMerge(sc, v) == sc >= MergeThreshold /\ Upper(v.s) = ACCEPTED

\* verdict.upper() is evaluated only when the score test passes, and raises
\* when the verdict is not a string.
Decide ==
    /\ pc = "decide"
    /\ IF score >= MergeThreshold /\ verdict.t # "str"
       THEN Raise("decide") /\ UNCHANGED branch
       ELSE /\ branch' = IF ShouldMerge(score, verdict) THEN "merge" ELSE "reject"
            /\ pc' = IF ShouldMerge(score, verdict) THEN "merge" ELSE "get_label"
            /\ UNCHANGED failedAt
    /\ UNCHANGED <<collectVars, docsVars, prompt, reviewVars, comment_body,
                   comments, mergeCalls, merged, labelLookups, labelFound,
                   createCalls, labelsCreated, attachCalls, labelsAttached>>

\* Variant of MergePR: a failed merge goes on to reject the pull request.
MergePRFallsThrough ==
    /\ pc = "merge"
    /\ mergeCalls' = mergeCalls + 1
    /\ \/ merged' = TRUE /\ pc' = "done"
       \/ merged' = merged /\ pc' = "get_label"
    /\ UNCHANGED <<failedAt, collectVars, docsVars, prompt, reviewVars,
                   comment_body, comments, branch, labelLookups, labelFound,
                   createCalls, labelsCreated, attachCalls, labelsAttached>>

\* Variant of MergePR: the merge is not wrapped in try/except.
MergePRUncaught ==
    /\ pc = "merge"
    /\ mergeCalls' = mergeCalls + 1
    /\ \/ merged' = TRUE /\ pc' = "done" /\ UNCHANGED failedAt
       \/ merged' = merged /\ Raise("merge")
    /\ UNCHANGED <<collectVars, docsVars, prompt, reviewVars,
                   comment_body, comments, branch, labelLookups, labelFound,
                   createCalls, labelsCreated, attachCalls, labelsAttached>>

\* pull.merge(merge_method="squash", ...) inside try/except Exception
MergePR ==
    /\ pc = "merge"
    /\ mergeCalls' = mergeCalls + 1
    /\ \/ merged' = TRUE /\ pc' = "done"
       \/ merged' = merged /\ pc' = "merge_failed"
    /\ UNCHANGED <<failedAt, collectVars, docsVars, prompt, reviewVars,
                   comment_body, comments, branch, labelLookups, labelFound,
                   createCalls, labelsCreated, attachCalls, labelsAttached>>

\* Variant of ReportMergeFailure: the handler re-raises after reporting.
ReportMergeFailureReraise ==
    /\ pc = "merge_failed"
    /\ \/ /\ comments' = Append(comments, "merge_failed")
          /\ Raise("merge")
       \/ /\ Raise("merge_failed_comment")
          /\ UNCHANGED comments
    /\ UNCHANGED <<collectVars, docsVars, prompt, reviewVars, comment_body,
                   branch, mergeCalls, merged, labelLookups, labelFound,
                   createCalls, labelsCreated, attachCalls, labelsAttached>>

\* The except clause: pull.create_issue_comment("Auto-merge failed: ...")
ReportMergeFailure ==
    /\ pc = "merge_failed"
    /\ \/ /\ comments' = Append(comments, "merge_failed")
          /\ pc' = "done"
          /\ UNCHANGED failedAt
       \/ /\ Raise("merge_failed_comment")
          /\ UNCHANGED comments
    /\ UNCHANGED <<collectVars, docsVars, prompt, reviewVars, comment_body,
                   branch, mergeCalls, merged, labelLookups, labelFound,
                   createCalls, labelsCreated, attachCalls, labelsAttached>>

\* Variant of GetLabel: the label is created whether or not the lookup found it.
GetLabelAlwaysCreate ==
    /\ pc = "get_label"
    /\ labelLookups' = labelLookups + 1
    /\ \/ labelFound' = TRUE /\ pc' = "create_label"
       \/ labelFound' = FALSE /\ pc' = "create_label"
    /\ UNCHANGED <<failedAt, collectVars, docsVars, prompt, reviewVars,
                   comment_body, comments, branch, mergeCalls, merged,
                   createCalls, labelsCreated, attachCalls, labelsAttached>>

\* repo.get_label("rejected") inside try/except
GetLabel ==
    /\ pc = "get_label"
    /\ labelLookups' = labelLookups + 1
    /\ \/ labelFound' = TRUE /\ pc' = "add_label"
       \/ labelFound' = FALSE /\ pc' = "create_label"
    /\ UNCHANGED <<failedAt, collectVars, docsVars, prompt, reviewVars,
                   comment_body, comments, branch, mergeCalls, merged,
                   createCalls, labelsCreated, attachCalls, labelsAttached>>

\* The except clause: repo.create_label("rejected", "FF0000", ...)
CreateLabel ==
    /\ pc = "create_label"
    /\ createCalls' = createCalls + 1
    /\ \/ /\ labelsCreated' = labelsCreated + 1
          /\ pc' = "add_label"
          /\ UNCHANGED failedAt
       \/ /\ Raise("create_label")
          /\ UNCHANGED labelsCreated
    /\ UNCHANGED <<collectVars, docsVars, prompt, reviewVars, comment_body,
                   comments, branch, mergeCalls, merged, labelLookups,
                   labelFound, attachCalls, labelsAttached>>

\* Variant of AddLabel: a failed attachment is swallowed and the run completes.
AddLabelSwallow ==
    /\ pc = "add_label"
    /\ attachCalls' = attachCalls + 1
    /\ \/ labelsAttached' = labelsAttached + 1
       \/ labelsAttached' = labelsAttached
    /\ pc' = "done"
    /\ UNCHANGED <<failedAt, collectVars, docsVars, prompt, reviewVars,
                   comment_body, comments, branch, mergeCalls, merged,
                   labelLookups, labelFound, createCalls, labelsCreated>>

\* pull.add_to_labels(label)
AddLabel ==
    /\ pc = "add_label"
    /\ attachCalls' = attachCalls + 1
    /\ \/ /\ labelsAttached' = labelsAttached + 1
          /\ pc' = "done"
          /\ UNCHANGED failedAt
       \/ /\ Raise("add_label")
          /\ UNCHANGED labelsAttached
    /\ UNCHANGED <<collectVars, docsVars, prompt, reviewVars, comment_body,
                   comments, branch, mergeCalls, merged, labelLookups,
                   labelFound, createCalls, labelsCreated>>

----------------------------------------------------------------------------
Next ==
    \/ Startup
    \/ GetFiles(RunWorld)
    \/ CollectFile(RunWorld)
    \/ ReadReadme(RunWorld)
    \/ ListDocs(RunWorld)
    \/ ReadDoc(RunWorld)
    \/ BuildPrompt
    \/ CallLLM
    \/ ExtractJSON
    \/ ReadResult
    \/ FormatComment
    \/ PostComment
    \/ Decide
    \/ MergePR
    \/ ReportMergeFailure
    \/ GetLabel
    \/ CreateLabel
    \/ AddLabel

\* One whole run of the script.
Spec == Init /\ [][Next]_vars

----------------------------------------------------------------------------
(* Properties.                                                             *)

Range(q) == {q[i] : i \in DOMAIN q}

Ended == pc \in {"done", "fatal"}

\* Nothing has been done to the pull request or to the repository's labels.
Untouched ==
    /\ comments = <<>>
    /\ mergeCalls = 0 /\ merged = FALSE
    /\ labelLookups = 0 /\ createCalls = 0 /\ labelsCreated = 0
    /\ attachCalls = 0 /\ labelsAttached = 0

\* The steps whose exception is raised before the review comment is posted,
\* and those whose exception is raised after it.
EarlySteps ==
    {"startup", "get_files", "call_llm", "extract_json", "json_loads",
     "int_score", "issues_found", "summary", "post_comment"}
LateSteps == {"decide", "merge_failed_comment", "create_label", "add_label"}

\* The verdict equals "ACCEPTED" when letter case is ignored.
AcceptedIgnoringCase(v) == v.t = "str" /\ Upper(v.s) = Upper(ACCEPTED)

ReviewParsed == parsed /\ pc # "read_result" /\ failedAt # "int_score"

C3_Original ==
    pc = "fatal" =>
        comments = <<>> /\ ~merged /\ labelsCreated = 0 /\ labelsAttached = 0

\* C3 amended: a run that ended with an exception raised up to and including
\* the post of the review comment has left the pull request untouched; one
\* raised later has left the review comment (and, when only the attachment
\* failed, a created label) but never a merge or an attached label.
C3_Amended ==
    pc = "fatal" =>
        /\ failedAt \in EarlySteps \cup LateSteps
        /\ failedAt \in EarlySteps => Untouched
        /\ failedAt \in LateSteps => comments = <<"review">>
        /\ ~merged /\ labelsAttached = 0
        /\ labelsCreated > 0 => failedAt = "add_label"

C3_Witness ==
    /\ pc = "fatal" /\ failedAt = "add_label"
    /\ comments = <<"review">> /\ labelsCreated = 1

\* The reply holds a "{" followed somewhere by a "}".
BraceDelimited(s) == \E i, j \in DOMAIN s : i < j /\ s[i] = "{" /\ s[j] = "}"

\* C4: the LLM endpoint is called at most once; when the call fails, or the
\* reply has no brace-delimited substring, or the extracted substring is not
\* valid JSON, the run ends with an exception at that step and the pull
\* request is untouched.
C4_NoRetryNoAction ==
    /\ llmCalls <= 1
    /\ failedAt = "call_llm" => pc = "fatal" /\ llmCalls = 1 /\ Untouched /\ ~parsed
    /\ (/\ llmCalls = 1 /\ failedAt # "call_llm" /\ pc # "extract_json"
        /\ \/ ~BraceDelimited(raw_output)
           \/ JsonLoads(MatchGroup(raw_output)) = {})
         => /\ pc = "fatal" /\ ~parsed /\ Untouched
            /\ failedAt = IF BraceDelimited(raw_output)
                          THEN "json_loads" ELSE "extract_json"

C4_Witness ==
    /\ pc = "fatal" /\ failedAt = "json_loads"
    /\ llmCalls = 1 /\ BraceDelimited(raw_output)

\* Step 1 has finished.
CollectionDone ==
    /\ pc \notin {"startup", "get_files", "collect"}
    /\ failedAt \notin {"startup", "get_files"}

RECURSIVE HeadingPaths(_)
HeadingPaths(q) ==
    IF Len(q) < 2 THEN <<>>
    ELSE IF Head(q) = "# " THEN <<q[2]>> \o HeadingPaths(Tail(Tail(q)))
    ELSE HeadingPaths(Tail(q))

RECURSIVE FilePaths(_)
FilePaths(items) ==
    IF items = <<>> THEN <<>>
    ELSE IF Head(items).type = "file"
         THEN <<Head(items).path>> \o FilePaths(Tail(items))
         ELSE FilePaths(Tail(items))

\* C8: step 2 never ends the run; once it has finished, a failed README
\* fetch has left "(No README found)" in the documentation text, a failed
\* docs listing has left "(No docs/ folder)", and a docs listing that was
\* returned has left no such marker but one heading per file entry, in
\* listing order.
C8_DocsLoader ==
    /\ pc = "fatal" => failedAt \in {"startup", "get_files"}
    /\ pc \in {"prompt", "call_llm"} =>
         /\ ~readme.ok => NoReadme \in Range(docs_text)
         /\ docs_dir.kind = "error" => NoDocs \in Range(docs_text)
         /\ docs_dir.kind = "list" =>
              /\ NoDocs \notin Range(docs_text)
              /\ HeadingPaths(docs_text) = FilePaths(docs_dir.items)

\* C6 as stated: after a failed merge the run completes without error, with
\* the follow-up comment posted and no label created or attached.
C6_Original ==
    branch = "merge" /\ mergeCalls = 1 /\ ~merged /\ Ended =>
        /\ pc = "done"
        /\ comments = <<"review", "merge_failed">>
        /\ labelsCreated = 0 /\ labelsAttached = 0

\* C6 amended: a failed merge is caught and the follow-up comment is posted
\* next; the run then completes, unless that post itself raises, which ends
\* the run with an exception; no label is looked up, created or attached.
C6_Amended ==
    branch = "merge" /\ mergeCalls = 1 /\ ~merged /\ pc # "merge" =>
        /\ pc \in {"merge_failed", "done", "fatal"}
        /\ pc = "merge_failed" => comments = <<"review">>
        /\ pc = "done" => comments = <<"review", "merge_failed">>
        /\ pc = "fatal" => failedAt = "merge_failed_comment" /\ comments = <<"review">>
        /\ labelLookups = 0 /\ createCalls = 0 /\ labelsCreated = 0
        /\ attachCalls = 0 /\ labelsAttached = 0

C6_Witness ==
    /\ branch = "merge" /\ mergeCalls = 1 /\ ~merged
    /\ pc = "done" /\ comments = <<"review", "merge_failed">>

\* C7 as stated: a completed run has posted exactly one comment and has
\* either merged the pull request or attached one label, not both.
C7_Original ==
    pc = "done" =>
        /\ Len(comments) = 1
        /\ \/ merged /\ labelsAttached = 0
           \/ ~merged /\ labelsAttached = 1

\* C7 amended: a completed run has posted the review comment once and has
\* either called merge once or attached the label once, not both; when the
\* merge call failed it has posted the follow-up comment as a second comment
\* and has neither merged nor labelled the pull request.
C7_Amended ==
    pc = "done" =>
        /\ comments # <<>> /\ comments[1] = "review"
        /\ \A i \in DOMAIN comments : i > 1 => comments[i] # "review"
        /\ \/ /\ mergeCalls = 1 /\ merged /\ comments = <<"review">>
              /\ attachCalls = 0 /\ labelsAttached = 0
           \/ /\ mergeCalls = 1 /\ ~merged
              /\ comments = <<"review", "merge_failed">>
              /\ attachCalls = 0 /\ labelsAttached = 0
           \/ /\ mergeCalls = 0 /\ ~merged /\ comments = <<"review">>
              /\ attachCalls = 1 /\ labelsAttached = 1

C7_Witness ==
    pc = "done" /\ merged /\ mergeCalls = 1 /\ comments = <<"review">>

LacksScoreOrVerdict ==
    parsed /\ (result.score.t = "missing" \/ result.verdict.t = "missing")

\* C9 as stated: a run whose parsed JSON lacks the score key or the verdict
\* key enters neither arm.
C9_Original == LacksScoreOrVerdict => branch = "none"

\* C9 amended: a missing score is read as 0 and a missing verdict as
\* "REJECTED"; such a run never enters the merge arm, and enters the reject
\* arm as soon as the review comment has been posted and the decision taken.
C9_Amended ==
    LacksScoreOrVerdict =>
        /\ branch # "merge" /\ mergeCalls = 0 /\ ~merged
        /\ pc \notin {"read_result", "fatal"} /\ result.score.t = "missing"
             => score = 0
        /\ pc \notin {"read_result", "fatal"} /\ result.verdict.t = "missing"
             => verdict = JStr(REJECTED)
        /\ comments # <<>> /\ pc # "decide" => branch = "reject"
        /\ failedAt # "decide"

C9_Witness ==
    /\ LacksScoreOrVerdict /\ result.score.t = "missing"
    /\ pc = "done" /\ branch = "reject" /\ labelsAttached = 1

\* C10 as stated: a run that entered the reject arm and ended has looked the
\* label up once, created it exactly when the lookup failed, and attached it
\* exactly once, without a merge call or a second comment.
C10_Original ==
    branch = "reject" /\ Ended =>
        /\ labelLookups = 1
        /\ (labelsCreated = 1) <=> ~labelFound
        /\ attachCalls = 1 /\ labelsAttached = 1
        /\ mergeCalls = 0 /\ comments = <<"review">>

\* C10 amended: in the reject arm the label is looked up once and create is
\* called exactly when the lookup failed; unless the creation raises (ending
\* the run), attach is then called exactly once, and the label is attached
\* once unless the attachment raises (ending the run); merge is never called
\* and the review comment stays the only comment.
C10_Amended ==
    branch = "reject" =>
        /\ mergeCalls = 0 /\ ~merged /\ comments = <<"review">>
        /\ labelLookups = IF pc = "get_label" THEN 0 ELSE 1
        /\ createCalls = IF pc \in {"get_label", "create_label"} \/ labelFound
                         THEN 0 ELSE 1
        /\ labelsCreated <= createCalls
        /\ pc = "add_label" => attachCalls = 0 /\ (labelFound \/ labelsCreated = 1)
        /\ pc = "done" => /\ attachCalls = 1 /\ labelsAttached = 1
                          /\ (labelsCreated = 1) <=> ~labelFound
        /\ pc = "fatal" =>
             /\ failedAt \in {"create_label", "add_label"}
             /\ labelsAttached = 0
             /\ failedAt = "create_label" => labelsCreated = 0 /\ attachCalls = 0
             /\ failedAt = "add_label" => attachCalls = 1

C10_Witness ==
    /\ branch = "reject" /\ pc = "done"
    /\ ~labelFound /\ labelsCreated = 1 /\ labelsAttached = 1

====
